---- MODULE Spec2Model ----
(***************************************************************************)
(* Model of the email generation pipeline of src/src/agent.py: the profile *)
(* loader, the prompt builder, the response parser, the output validator,  *)
(* generate_personalized_email and the batch loop of __main__.             *)
(*                                                                         *)
(* Text is a sequence of one-character strings, indexed from 1 (Python     *)
(* index k is index k + 1 here).  A call's outcome is Return(v) or         *)
(* Raise(e), so that what an except clause catches is part of the model.   *)
(***************************************************************************)
EXTENDS Integers, Sequences, FiniteSets, TLC

VARIABLES
    pc,             \* position of the program under the specification at hand
    companies,      \* the list load_scraped_data_from_csv returned
    idx,            \* number of loop iterations of __main__ that completed
    successful,     \* __main__'s counter
    failed,         \* __main__'s counter
    outcomes,       \* per iteration: what was asked, what the LLM did, what came back
    profileFile,    \* data/advisor_profile.txt as the file system presents it
    cachedProfile,  \* generate_personalized_email._advisor_profile
    loadCount,      \* number of load_advisor_profile invocations
    input,          \* argument of the single call of a one-call specification
    output          \* outcome of that call

vars == <<pc, companies, idx, successful, failed, outcomes, profileFile,
          cachedProfile, loadCount, input, output>>

----------------------------------------------------------------------------
(* Bounds of the model *)

MaxProfileLen == 4

\* scraped_content lengths lie within Near of 0 and of SCRAPED_CONTENT_LIMIT
Near == 3

MaxPattern == 2

\* email_body word counts lie within WordsNear of 0, MIN_WORD_COUNT and MAX_WORD_COUNT
WordsNear == 1

\* whitespace characters after a word of a generated email_body
MaxGap == 2

\* pieces of text in a string value of a generated JSON payload
MaxPieces == 2

\* records in the list __main__ iterates
MaxCompanies == 3

----------------------------------------------------------------------------
(* Outcomes of a call, and Python's None *)

Return(v) == [kind |-> "return", value |-> v]

Raise(e) == [kind |-> "raise", exc |-> e]

None == [t |-> "None"]

NoOutput == [kind |-> "pending"]

\* The classes `except Exception` catches, among those the model raises.
ExceptionClasses ==
    {"Exception", "JSONDecodeError", "AttributeError", "TypeError", "KeyError",
     "OSError", "UnicodeDecodeError", "UnboundLocalError"}

----------------------------------------------------------------------------
(* str primitives *)

Whitespace == {" ", "\n"}

Min(a, b) == IF a < b THEN a ELSE b

RECURSIVE LStrip(_)
LStrip(s) ==
    IF s # <<>> /\ Head(s) \in Whitespace THEN LStrip(Tail(s)) ELSE s

RECURSIVE RStrip(_)
RStrip(s) ==
    IF s # <<>> /\ s[Len(s)] \in Whitespace
    THEN RStrip(SubSeq(s, 1, Len(s) - 1))
    ELSE s

\* str.strip()
Strip(s) == RStrip(LStrip(s))

----------------------------------------------------------------------------
(* load_advisor_profile *)

\* The fallback sentence, as one token no file content can contain.
FallbackProfile ==
    <<"Experienced M&A advisor with diverse deal experience across multiple industries.">>

RECURSIVE SeqsUpTo(_, _)
SeqsUpTo(S, n) ==
    IF n = 0 THEN {<<>>}
    ELSE LET shorter == SeqsUpTo(S, n - 1)
         IN  shorter \cup {Append(s, c) : s \in {t \in shorter : Len(t) = n - 1}, c \in S}

ProfileChars == {"x", " ", "\n"}

\* What the file system can present at ADVISOR_PROFILE_PATH.
ProfileFiles ==
    {[state |-> st, content |-> <<>>] :
        st \in {"missing", "stat_error", "open_error", "read_error"}}
    \cup {[state |-> "ok", content |-> c] : c \in SeqsUpTo(ProfileChars, MaxProfileLen)}

\* The body of the try block.
LoadProfileBody(file) ==
    IF file.state = "stat_error" THEN Raise("OSError")
    ELSE IF file.state = "missing" THEN Return(FallbackProfile)
    ELSE IF file.state = "open_error" THEN Raise("OSError")
    ELSE IF file.state = "read_error" THEN Raise("UnicodeDecodeError")
    ELSE LET content == Strip(file.content)
         IN  IF content = <<>> THEN Return(FallbackProfile) ELSE Return(content)

ProfileCatchNarrow(r) ==
    IF r.kind = "raise" /\ r.exc = "OSError" THEN Return(FallbackProfile) ELSE r

\* except Exception as e: ... return fallback
ProfileCatch(r) ==
    IF r.kind = "raise" /\ r.exc \in ExceptionClasses
    THEN Return(FallbackProfile)
    ELSE r

load_advisor_profile(file) == ProfileCatch(LoadProfileBody(file))

----------------------------------------------------------------------------
(* One-call specification of load_advisor_profile *)

Idle ==
    /\ companies = <<>>
    /\ idx = 0
    /\ successful = 0
    /\ failed = 0
    /\ outcomes = <<>>
    /\ loadCount = 0
    /\ cachedProfile = [set |-> FALSE]

InitProfile ==
    /\ Idle
    /\ pc = "call"
    /\ profileFile \in ProfileFiles
    /\ input = None
    /\ output = NoOutput

LoadProfileCall ==
    /\ pc = "call"
    /\ output' = load_advisor_profile(profileFile)
    /\ pc' = "done"
    /\ UNCHANGED <<companies, idx, successful, failed, outcomes, profileFile,
                   cachedProfile, loadCount, input>>

NextProfile == LoadProfileCall

SpecProfile == InitProfile /\ [][NextProfile]_vars

\* v is c without its leading and trailing whitespace, and is not empty
IsTrimOf(v, c) ==
    /\ v # <<>>
    /\ v[1] \notin Whitespace
    /\ v[Len(v)] \notin Whitespace
    /\ \E i \in 1..Len(c) :
          /\ i + Len(v) - 1 <= Len(c)
          /\ v = SubSeq(c, i, i + Len(v) - 1)
          /\ \A k \in 1..Len(c) : (k < i \/ k > i + Len(v) - 1) => c[k] \in Whitespace

\* C8: load_advisor_profile never raises; it returns the fallback sentence when
\* the file is missing, cannot be read, or is empty after trimming, and
\* otherwise the file content without its leading and trailing whitespace.
C8_ProfileNeverRaises ==
    pc = "done" =>
        /\ output.kind = "return"
        /\ IF \/ profileFile.state # "ok"
              \/ \A k \in 1..Len(profileFile.content) : profileFile.content[k] \in Whitespace
           THEN output.value = FallbackProfile
           ELSE IsTrimOf(output.value, profileFile.content)

C8_Witness ==
    /\ pc = "done"
    /\ profileFile.state = "ok"
    /\ profileFile.content = <<" ", "x", "\n", "x">>
    /\ output = Return(<<"x", "\n", "x">>)

----------------------------------------------------------------------------
(* build_email_prompt *)

SCRAPED_CONTENT_LIMIT == 1500

MIN_WORD_COUNT == 150

MAX_WORD_COUNT == 250

LimitedData == <<"Limited data available">>

\* s[:n]
Prefix(s, n) == SubSeq(s, 1, Min(Len(s), n))

NoTruncation(s, n) == s

\* company_data.get('scraped_content', '')[:SCRAPED_CONTENT_LIMIT]
Truncate(s, n) == Prefix(s, n)

\* The rendered prompt, as the values the template embeds; the rest of the
\* template is constant text.
build_email_prompt(company_data, advisor_profile) ==
    LET scraped == IF "scraped_content" \in DOMAIN company_data
                   THEN company_data["scraped_content"]
                   ELSE <<>>
    IN  IF {"company_name", "industry", "revenue", "website"} \ DOMAIN company_data # {}
        THEN Raise("KeyError")
        ELSE LET scraped_snippet == Truncate(scraped, SCRAPED_CONTENT_LIMIT)
             IN  Return([advisor_profile |-> advisor_profile,
                         company_name |-> company_data["company_name"],
                         industry |-> company_data["industry"],
                         revenue |-> company_data["revenue"],
                         website |-> company_data["website"],
                         intelligence |-> IF scraped_snippet # <<>>
                                          THEN scraped_snippet
                                          ELSE LimitedData,
                         min_words |-> MIN_WORD_COUNT,
                         max_words |-> MAX_WORD_COUNT])

----------------------------------------------------------------------------
(* One-call specification of build_email_prompt *)

ContentOf(n, p) == [i \in 1..n |-> IF i % (p + 1) = 0 THEN "x" ELSE "y"]

ContentLengths ==
    (0..Near) \cup ((SCRAPED_CONTENT_LIMIT - Near)..(SCRAPED_CONTENT_LIMIT + Near))

ScrapedContents == {ContentOf(n, p) : n \in ContentLengths, p \in 1..MaxPattern}

CompanyNames == {"Acme Filters", "Bolt Logistics"}

BaseCompany(name) ==
    [k \in {"company_name", "website", "industry", "revenue"} |->
        IF k = "company_name" THEN name
        ELSE IF k = "website" THEN "acme.com"
        ELSE IF k = "industry" THEN "Industrial"
        ELSE "$10M"]

WithScraped(c, content) ==
    [k \in DOMAIN c \cup {"scraped_content"} |->
        IF k = "scraped_content" THEN content ELSE c[k]]

PromptCompanies ==
    {BaseCompany(n) : n \in CompanyNames}
    \cup {WithScraped(BaseCompany(n), c) : n \in CompanyNames, c \in ScrapedContents}

PromptProfiles == {FallbackProfile, <<"x", " ", "x">>}

InitPrompt ==
    /\ Idle
    /\ pc = "call"
    /\ profileFile = [state |-> "missing", content |-> <<>>]
    /\ input \in [company_data : PromptCompanies, advisor_profile : PromptProfiles]
    /\ output = NoOutput

BuildPromptCall ==
    /\ pc = "call"
    /\ output' = build_email_prompt(input.company_data, input.advisor_profile)
    /\ pc' = "done"
    /\ UNCHANGED <<companies, idx, successful, failed, outcomes, profileFile,
                   cachedProfile, loadCount, input>>

NextPrompt == BuildPromptCall

SpecPrompt == InitPrompt /\ [][NextPrompt]_vars

ScrapedOf(company_data) ==
    IF "scraped_content" \in DOMAIN company_data
    THEN company_data["scraped_content"]
    ELSE <<>>

\* C9: the snippet the prompt embeds is the prefix of scraped_content of length
\* min(len(scraped_content), 1500); an empty or absent scraped_content embeds
\* the 'Limited data available' marker.
C9_TruncationBound ==
    pc = "done" =>
        LET scraped == ScrapedOf(input.company_data)
            shown == output.value.intelligence
        IN  /\ output.kind = "return"
            /\ IF scraped = <<>>
               THEN shown = LimitedData
               ELSE /\ Len(shown) <= SCRAPED_CONTENT_LIMIT
                    /\ Len(shown) <= Len(scraped)
                    /\ Len(shown) = SCRAPED_CONTENT_LIMIT \/ Len(shown) = Len(scraped)
                    /\ \A i \in 1..Len(shown) : shown[i] = scraped[i]

C9_Witness ==
    /\ pc = "done"
    /\ Len(ScrapedOf(input.company_data)) > SCRAPED_CONTENT_LIMIT
    /\ output.kind = "return"
    /\ Len(output.value.intelligence) = SCRAPED_CONTENT_LIMIT

----------------------------------------------------------------------------
(* Values json.loads produces.  null is None; the other types are tagged, and
   an object is a function from key text to values.  A key name is one token
   of text. *)

JNum(n) == [t |-> "num", n |-> n]

JStr(s) == [t |-> "str", s |-> s]

JList(l) == [t |-> "list", l |-> l]

JObj(o) == [t |-> "obj", o |-> o]

EmptyObj == JObj([k \in {} |-> None])

SubjectKey == <<"email_subject">>

BodyKey == <<"email_body">>

NoteKey == <<"note">>

\* bool(v)
Truthy(v) ==
    CASE v.t = "None" -> FALSE
      [] v.t = "num"  -> v.n # 0
      [] v.t = "str"  -> v.s # <<>>
      [] v.t = "list" -> v.l # <<>>
      [] v.t = "obj"  -> DOMAIN v.o # {}

\* len(body.split())
WordCount(s) ==
    Cardinality({i \in 1..Len(s) :
        s[i] \notin Whitespace /\ (i = 1 \/ s[i - 1] \in Whitespace)})

----------------------------------------------------------------------------
(* validate_email_output *)

Verdict(v, w) == [kind |-> "return", value |-> v, warning |-> w]

WordCountFails(word_count) ==
    IF word_count < MIN_WORD_COUNT \/ word_count > MAX_WORD_COUNT
    THEN Verdict(FALSE, "word_count")
    ELSE Verdict(TRUE, "none")

\* lines 139-143: warn when the count is out of range, return True either way
WordCountCheck(word_count) ==
    IF word_count < MIN_WORD_COUNT \/ word_count > MAX_WORD_COUNT
    THEN Verdict(TRUE, "word_count")
    ELSE Verdict(TRUE, "none")

FieldsPresentEither(email) == SubjectKey \in DOMAIN email.o \/ BodyKey \in DOMAIN email.o

\* not ('email_subject' not in email or 'email_body' not in email)
FieldsPresent(email) == SubjectKey \in DOMAIN email.o /\ BodyKey \in DOMAIN email.o

validate_email_output(email) ==
    IF ~Truthy(email) \/ email.t # "obj"
    THEN Verdict(FALSE, "invalid_format")
    ELSE IF ~FieldsPresent(email)
    THEN Verdict(FALSE, "missing_fields")
    ELSE LET body == IF BodyKey \in DOMAIN email.o      \* email.get('email_body', '')
                     THEN email.o[BodyKey]
                     ELSE JStr(<<>>)
         IN  IF body.t # "str"
             THEN Raise("AttributeError")      \* body.split() on a non-str
             ELSE WordCountCheck(WordCount(body.s))

----------------------------------------------------------------------------
(* One-call specification of validate_email_output *)

BodyOf(k, g) == [i \in 1..(k * (g + 1)) |-> IF i % (g + 1) = 1 THEN "x" ELSE " "]

BodyWordCounts ==
    (0..WordsNear)
    \cup ((MIN_WORD_COUNT - WordsNear)..(MIN_WORD_COUNT + WordsNear))
    \cup ((MAX_WORD_COUNT - WordsNear)..(MAX_WORD_COUNT + WordsNear))

BodyTexts == {BodyOf(k, g) : k \in BodyWordCounts, g \in 1..MaxGap} \cup {<<" ">>}

NonStrValues == {None, JNum(5), JList(<<>>)}

BodyValues == {JStr(b) : b \in BodyTexts} \cup NonStrValues

SubjectValues == {JStr(<<"H", "i">>)} \cup NonStrValues

ObjOf(keys, subject, body) ==
    JObj([k \in keys |-> IF k = SubjectKey THEN subject
                         ELSE IF k = BodyKey THEN body
                         ELSE JNum(5)])

DecodedValues ==
    {None, JNum(0), JNum(5), JStr(<<>>), JStr(<<"x">>), JList(<<>>), JList(<<JNum(5)>>)}
    \cup {ObjOf(keys, sv, bv) :
            keys \in SUBSET {SubjectKey, BodyKey, NoteKey},
            sv \in SubjectValues, bv \in BodyValues}

InitValidate ==
    /\ Idle
    /\ pc = "call"
    /\ profileFile = [state |-> "missing", content |-> <<>>]
    /\ input \in DecodedValues
    /\ output = NoOutput

ValidateCall ==
    /\ pc = "call"
    /\ output' = validate_email_output(input)
    /\ pc' = "done"
    /\ UNCHANGED <<companies, idx, successful, failed, outcomes, profileFile,
                   cachedProfile, loadCount, input>>

NextValidate == ValidateCall

SpecValidate == InitValidate /\ [][NextValidate]_vars

HasBothAsText(email) ==
    /\ email.t = "obj"
    /\ SubjectKey \in DOMAIN email.o
    /\ BodyKey \in DOMAIN email.o
    /\ email.o[SubjectKey].t = "str"
    /\ email.o[BodyKey].t = "str"

\* C5: a decoded object holding email_subject and email_body as strings
\* validates True whatever the word count of email_body is.
C5_WordCountAdvisory ==
    (pc = "done" /\ HasBothAsText(input)) => (output.kind = "return" /\ output.value = TRUE)

C5_Witness ==
    /\ pc = "done"
    /\ HasBothAsText(input)
    /\ WordCount(input.o[BodyKey].s) > MAX_WORD_COUNT
    /\ output = Verdict(TRUE, "word_count")

\* C6: validate_email_output returns True or False for every value JSON
\* decoding can produce, and never raises.
C6_ValidateNeverRaises ==
    pc = "done" => (output.kind = "return" /\ output.value \in BOOLEAN)

----------------------------------------------------------------------------
(* Text search and slicing, with Python's 0-based positions *)

\* s[a:b] for 0 <= a, 0 <= b
Slice(s, a, b) == SubSeq(s, a + 1, Min(b, Len(s)))

MatchAt(s, sub, p) ==
    /\ p + Len(sub) <= Len(s)
    /\ \A k \in 1..Len(sub) : s[p + k] = sub[k]

Matches(s, sub) == {p \in 0..Len(s) : MatchAt(s, sub, p)}

\* sub in s
Contains(s, sub) == Matches(s, sub) # {}

\* s.find(sub)
Find(s, sub) ==
    IF Matches(s, sub) = {} THEN -1
    ELSE CHOOSE p \in Matches(s, sub) : \A q \in Matches(s, sub) : p <= q

\* s.rfind(sub)
RFind(s, sub) ==
    IF Matches(s, sub) = {} THEN -1
    ELSE CHOOSE p \in Matches(s, sub) : \A q \in Matches(s, sub) : q <= p

StartsWith(s, sub) == MatchAt(s, sub, 0)

EndsWith(s, sub) == Len(sub) <= Len(s) /\ MatchAt(s, sub, Len(s) - Len(sub))

----------------------------------------------------------------------------
(* json.loads, for null, numbers, strings without escapes, lists, objects *)

Quote == "\""

Digits == {"0", "5"}

DigitValue(c) == IF c = "0" THEN 0 ELSE 5

NullText == <<"n", "u", "l", "l">>

Fail == [ok |-> FALSE]

Parsed(v, next) == [ok |-> TRUE, val |-> v, next |-> next]

\* 1-based position of the first non-whitespace character at or after i
RECURSIVE SkipWs(_, _)
SkipWs(s, i) ==
    IF i <= Len(s) /\ s[i] \in Whitespace THEN SkipWs(s, i + 1) ELSE i

\* 1-based position of the first Quote at or after i, or 0
RECURSIVE ClosingQuote(_, _)
ClosingQuote(s, i) ==
    IF i > Len(s) THEN 0
    ELSE IF s[i] = Quote THEN i
    ELSE ClosingQuote(s, i + 1)

\* a string starting at the Quote at i; a raw newline inside it is an error
ParseString(s, i) ==
    LET k == ClosingQuote(s, i + 1)
    IN  IF k = 0 \/ \E m \in (i + 1)..(k - 1) : s[m] = "\n"
        THEN Fail
        ELSE Parsed(JStr(SubSeq(s, i + 1, k - 1)), k + 1)

RECURSIVE ParseDigits(_, _, _)
ParseDigits(s, i, acc) ==
    IF i <= Len(s) /\ s[i] \in Digits
    THEN ParseDigits(s, i + 1, 10 * acc + DigitValue(s[i]))
    ELSE Parsed(JNum(acc), i)

RECURSIVE ParseValue(_, _), ParseElements(_, _, _), ParseMembers(_, _, _)

ParseValue(s, i) ==
    LET j == SkipWs(s, i)
    IN  IF j > Len(s) THEN Fail
        ELSE IF s[j] = Quote THEN ParseString(s, j)
        ELSE IF MatchAt(s, NullText, j - 1) THEN Parsed(None, j + Len(NullText))
        ELSE IF s[j] = "0" THEN Parsed(JNum(0), j + 1)
        ELSE IF s[j] \in Digits THEN ParseDigits(s, j, 0)
        ELSE IF s[j] = "["
        THEN LET k == SkipWs(s, j + 1)
             IN  IF k <= Len(s) /\ s[k] = "]"
                 THEN Parsed(JList(<<>>), k + 1)
                 ELSE ParseElements(s, j + 1, <<>>)
        ELSE IF s[j] = "{"
        THEN LET k == SkipWs(s, j + 1)
             IN  IF k <= Len(s) /\ s[k] = "}"
                 THEN Parsed(EmptyObj, k + 1)
                 ELSE ParseMembers(s, j + 1, [x \in {} |-> None])
        ELSE Fail

\* value (, value)* ]
ParseElements(s, i, acc) ==
    LET r == ParseValue(s, i)
    IN  IF ~r.ok THEN Fail
        ELSE LET k == SkipWs(s, r.next)
             IN  IF k > Len(s) THEN Fail
                 ELSE IF s[k] = "," THEN ParseElements(s, k + 1, Append(acc, r.val))
                 ELSE IF s[k] = "]" THEN Parsed(JList(Append(acc, r.val)), k + 1)
                 ELSE Fail

\* "key" : value (, "key" : value)* } ; a repeated key keeps its last value
ParseMembers(s, i, acc) ==
    LET j == SkipWs(s, i)
    IN  IF j > Len(s) \/ s[j] # Quote THEN Fail
        ELSE LET key == ParseString(s, j)
             IN  IF ~key.ok THEN Fail
                 ELSE LET c == SkipWs(s, key.next)
                      IN  IF c > Len(s) \/ s[c] # ":" THEN Fail
                          ELSE LET r == ParseValue(s, c + 1)
                               IN  IF ~r.ok THEN Fail
                                   ELSE LET k == SkipWs(s, r.next)
                                            obj == [x \in DOMAIN acc \cup {key.val.s} |->
                                                      IF x = key.val.s THEN r.val ELSE acc[x]]
                                        IN  IF k > Len(s) THEN Fail
                                            ELSE IF s[k] = "," THEN ParseMembers(s, k + 1, obj)
                                            ELSE IF s[k] = "}" THEN Parsed(JObj(obj), k + 1)
                                            ELSE Fail

\* json.loads(s)
Loads(s) ==
    LET r == ParseValue(s, 1)
    IN  IF r.ok /\ SkipWs(s, r.next) > Len(s)
        THEN Return(r.val)
        ELSE Raise("JSONDecodeError")

----------------------------------------------------------------------------
(* Lines 187-201 of generate_personalized_email: strip the code fence, decode *)

\* the backquote character
Backtick == "BACKTICK"

Fence == <<Backtick, Backtick, Backtick>>

JsonFence == Fence \o <<"j", "s", "o", "n">>

StripFences(response) ==
    LET cleaned_response == Strip(response)
    IN  IF Contains(cleaned_response, JsonFence)
        THEN LET start == Find(cleaned_response, JsonFence) + 7
                 end == RFind(cleaned_response, Fence)
             IN  IF end > start
                 THEN Strip(Slice(cleaned_response, start, end))
                 ELSE cleaned_response
        ELSE IF StartsWith(cleaned_response, Fence) /\ EndsWith(cleaned_response, Fence)
        THEN Strip(Slice(cleaned_response, 3, Len(cleaned_response) - 3))
        ELSE cleaned_response

ParseResponse(response) == Loads(StripFences(response))

----------------------------------------------------------------------------
(* Responses of the LLM: JSON text, bare or inside a code fence *)

KeyOrder == <<SubjectKey, BodyKey, NoteKey>>

RECURSIVE Dumps(_), DumpsItems(_), DumpsMembers(_, _)

\* json.dumps(v)
Dumps(v) ==
    CASE v.t = "None" -> NullText
      [] v.t = "num"  -> IF v.n = 0 THEN <<"0">> ELSE <<"5">>
      [] v.t = "str"  -> <<Quote>> \o v.s \o <<Quote>>
      [] v.t = "list" -> <<"[">> \o DumpsItems(v.l) \o <<"]">>
      [] v.t = "obj"  -> <<"{">> \o DumpsMembers(v.o, KeyOrder) \o <<"}">>

DumpsItems(l) ==
    IF l = <<>> THEN <<>>
    ELSE IF Len(l) = 1 THEN Dumps(l[1])
    ELSE Dumps(l[1]) \o <<",", " ">> \o DumpsItems(Tail(l))

DumpsMembers(o, keys) ==
    IF keys = <<>> THEN <<>>
    ELSE IF Head(keys) \notin DOMAIN o THEN DumpsMembers(o, Tail(keys))
    ELSE LET rest == DumpsMembers(o, Tail(keys))
             member == <<Quote>> \o Head(keys) \o <<Quote, ":", " ">> \o Dumps(o[Head(keys)])
         IN  IF rest = <<>> THEN member ELSE member \o <<",", " ">> \o rest

FenceKinds == {"json", "generic", "none"}

Wrap(text, fence) ==
    CASE fence = "json"    -> JsonFence \o <<"\n">> \o text \o <<"\n">> \o Fence
      [] fence = "generic" -> Fence \o <<"\n">> \o text \o <<"\n">> \o Fence
      [] fence = "none"    -> text

Pieces == {<<"x">>, <<" ">>, Fence, JsonFence}

RECURSIVE PieceTexts(_)
PieceTexts(n) ==
    IF n = 0 THEN {<<>>}
    ELSE PieceTexts(n - 1) \cup {t \o p : t \in PieceTexts(n - 1), p \in Pieces}

Payloads ==
    {ObjOf({SubjectKey, BodyKey}, JStr(sv), JStr(bv)) :
        sv \in PieceTexts(1), bv \in PieceTexts(MaxPieces)}

----------------------------------------------------------------------------
(* Specification of the parse step: one payload, decoded under each fence *)

InitParse ==
    /\ Idle
    /\ pc = "call"
    /\ profileFile = [state |-> "missing", content |-> <<>>]
    /\ input \in Payloads
    /\ output = [f \in FenceKinds |-> NoOutput]

ParseCall(f) ==
    /\ pc = "call"
    /\ output[f] = NoOutput
    /\ output' = [output EXCEPT ![f] = ParseResponse(Wrap(Dumps(input), f))]
    /\ pc' = IF \A g \in FenceKinds \ {f} : output[g] # NoOutput THEN "done" ELSE "call"
    /\ UNCHANGED <<companies, idx, successful, failed, outcomes, profileFile,
                   cachedProfile, loadCount, input>>

NextParse == \E f \in FenceKinds : ParseCall(f)

SpecParse == InitParse /\ [][NextParse]_vars

\* C3: the same payload decodes to the same record whether the response wraps
\* it in a json fence, in a generic fence, or in no fence.
C3_FenceTolerance ==
    pc = "done" => \A f, g \in FenceKinds : output[f] = output[g]

----------------------------------------------------------------------------
(* generate_personalized_email *)

\* hasattr(generate_personalized_email, '_advisor_profile') and its value
Unset == [set |-> FALSE]

Cached(text) == [set |-> TRUE, text |-> text]

\* What call_llm does: raise, return text, or return None (a reply without content)
LLMRaise(e) == [kind |-> "raise", exc |-> e]

LLMText(text) == [kind |-> "text", text |-> text]

LLMNone == [kind |-> "none"]

\* The try block at the point it ends, with the locals the handlers and the
\* properties read.
Locals(result, cache, loads, prompt, responseBound, email, valid) ==
    [result |-> result, cache |-> cache, loads |-> loads, prompt |-> prompt,
     responseBound |-> responseBound, email |-> email, valid |-> valid]

NeedsLoadAlways(cache) == TRUE

\* not hasattr(generate_personalized_email, '_advisor_profile')
NeedsLoad(cache) == ~cache.set

\* validate_email_output(email) has run: lines 204-207
AfterValidate(cache, loads, prompt, email, valid) ==
    IF valid.kind = "raise"
    THEN Locals(Raise(valid.exc), cache, loads, prompt, TRUE, email, valid)
    ELSE IF ~valid.value
    THEN Locals(Return(None), cache, loads, prompt, TRUE, email, valid)
    ELSE Locals(Return(email.value), cache, loads, prompt, TRUE, email, valid)

\* json.loads(cleaned_response) has run: line 201
AfterParse(cache, loads, prompt, email) ==
    IF email.kind = "raise"
    THEN Locals(email, cache, loads, prompt, TRUE, email, NoOutput)
    ELSE AfterValidate(cache, loads, prompt, email, validate_email_output(email.value))

\* build_email_prompt has run: lines 171-201
AfterPrompt(cache, loads, prompt, llm) ==
    IF prompt.kind = "raise"
    THEN Locals(prompt, cache, loads, prompt, FALSE, NoOutput, NoOutput)
    ELSE IF llm.kind = "raise"       \* call_llm raises: response is not bound
    THEN Locals(Raise(llm.exc), cache, loads, prompt, FALSE, NoOutput, NoOutput)
    ELSE IF llm.kind = "none"        \* None.strip()
    THEN Locals(Raise("AttributeError"), cache, loads, prompt, TRUE, NoOutput, NoOutput)
    ELSE AfterParse(cache, loads, prompt, ParseResponse(llm.text))

\* the profile is at hand: lines 168-171
AfterLoad(company_data, cache, loads, llm) ==
    AfterPrompt(cache, loads, build_email_prompt(company_data, cache.text), llm)

\* load_advisor_profile() has run: line 166
StoreProfile(company_data, cache, loaded, llm) ==
    IF loaded.kind = "raise"
    THEN Locals(loaded, cache, 1, NoOutput, FALSE, NoOutput, NoOutput)
    ELSE AfterLoad(company_data, Cached(loaded.value), 1, llm)

GenerateTry(company_data, cache, file, llm) ==
    IF NeedsLoad(cache)
    THEN StoreProfile(company_data, cache, load_advisor_profile(file), llm)
    ELSE AfterLoad(company_data, cache, 0, llm)

\* The two except clauses.  Each reads company_data['company_name']; the first
\* also reads response[:200].  What a handler raises leaves the function.
GenerateExcept(company_data, t) ==
    IF t.result.kind # "raise" THEN t.result
    ELSE IF t.result.exc = "JSONDecodeError"
    THEN IF "company_name" \notin DOMAIN company_data THEN Raise("KeyError")
         ELSE IF ~t.responseBound THEN Raise("UnboundLocalError")
         ELSE Return(None)
    ELSE IF t.result.exc \in ExceptionClasses
    THEN IF "company_name" \notin DOMAIN company_data THEN Raise("KeyError")
         ELSE Return(None)
    ELSE t.result

Handled(company_data, t) == [t EXCEPT !.result = GenerateExcept(company_data, t)]

generate_personalized_email(company_data, cache, file, llm) ==
    Handled(company_data, GenerateTry(company_data, cache, file, llm))

----------------------------------------------------------------------------
(* One-call specification of generate_personalized_email *)

SorryText == <<"S", "o", "r", "r", "y", " ", "n", "o">>

GoodBody == BodyOf(2, 1)

GenerateValues ==
    {None, JNum(0), JNum(5), JStr(<<>>), JStr(<<"x">>), JList(<<>>), JList(<<JNum(5)>>)}
    \cup {ObjOf(keys, sv, bv) :
            keys \in SUBSET {SubjectKey, BodyKey, NoteKey},
            sv \in {JStr(<<"H", "i">>), None},
            bv \in {JStr(GoodBody), JStr(<<>>), None, JNum(5)}}

GenerateBehaviours ==
    {LLMRaise("Exception"), LLMRaise("JSONDecodeError"), LLMNone, LLMText(SorryText)}
    \cup {LLMText(Wrap(Dumps(v), f)) : v \in GenerateValues, f \in FenceKinds}

GenerateFiles ==
    {[state |-> "missing", content |-> <<>>], [state |-> "ok", content |-> <<"x", "\n">>]}

InitGenerate ==
    /\ Idle
    /\ pc = "call"
    /\ profileFile \in GenerateFiles
    /\ input \in [company_data : {WithScraped(BaseCompany("Acme Filters"), <<"x">>)},
                  llm : GenerateBehaviours]
    /\ output = NoOutput

GenerateCall ==
    /\ pc = "call"
    /\ \E g \in {generate_personalized_email(input.company_data, cachedProfile,
                                             profileFile, input.llm)} :
           /\ output' = g
           /\ cachedProfile' = g.cache
           /\ loadCount' = loadCount + g.loads
    /\ pc' = "done"
    /\ UNCHANGED <<companies, idx, successful, failed, outcomes, profileFile, input>>

NextGenerate == GenerateCall

SpecGenerate == InitGenerate /\ [][NextGenerate]_vars

\* C1: no exception leaves generate_personalized_email, whatever the LLM
\* collaborator does; every failure becomes a None result.
C1_NoExceptionEscapes ==
    pc = "done" => output.result.kind = "return"

HardFailure(email) ==
    \/ ~Truthy(email)
    \/ email.t # "obj"
    \/ SubjectKey \notin DOMAIN email.o
    \/ BodyKey \notin DOMAIN email.o

\* C4: a value generate_personalized_email returns, unless None, is an object
\* holding email_subject and email_body; a decoded response that is absent,
\* empty, no object, or lacks either key validates False and yields None.
C4_RequiredFields ==
    pc = "done" =>
        /\ (output.result.kind = "return" /\ output.result.value # None) =>
              /\ output.result.value.t = "obj"
              /\ {SubjectKey, BodyKey} \subseteq DOMAIN output.result.value.o
        /\ (output.email.kind = "return" /\ HardFailure(output.email.value)) =>
              /\ output.valid.kind = "return"
              /\ output.valid.value = FALSE
              /\ output.result = Return(None)

C4_Witness ==
    /\ pc = "done"
    /\ output.email.kind = "return"
    /\ output.email.value.t = "obj"
    /\ DOMAIN output.email.value.o = {SubjectKey}
    /\ output.valid = Verdict(FALSE, "missing_fields")
    /\ output.result = Return(None)

----------------------------------------------------------------------------
(* The batch loop of __main__ *)

GoodEmail == ObjOf({SubjectKey, BodyKey}, JStr(<<"H", "i">>), JStr(GoodBody))

BatchBehaviours ==
    {LLMRaise("Exception"), LLMRaise("JSONDecodeError"), LLMNone,
     LLMText(SorryText), LLMText(Wrap(Dumps(GoodEmail), "json"))}

BatchFiles == GenerateFiles \cup {[state |-> "ok", content |-> <<"y">>]}

Init ==
    /\ pc = "loop"
    /\ companies \in UNION {{[i \in 1..n |-> WithScraped(BaseCompany(names[i]), <<"x">>)] :
                                names \in [1..n -> CompanyNames]} : n \in 0..MaxCompanies}
    /\ idx = 0
    /\ successful = 0
    /\ failed = 0
    /\ outcomes = <<>>
    /\ profileFile \in BatchFiles
    /\ cachedProfile = Unset
    /\ loadCount = 0
    /\ input = None
    /\ output = NoOutput

\* One iteration of `for company in companies` (lines 270-286).  An exception
\* leaving generate_personalized_email ends the program: the loop has no handler.
BatchStep ==
    /\ pc = "loop"
    /\ idx < Len(companies)
    /\ \E llm \in BatchBehaviours :
       \E company \in {companies[idx + 1]} :
       \E g \in {generate_personalized_email(company, cachedProfile, profileFile, llm)} :
              /\ output' = g
              /\ input' = llm
              /\ cachedProfile' = g.cache
              /\ loadCount' = loadCount + g.loads
              /\ IF g.result.kind = "raise"
                 THEN /\ pc' = "aborted"
                      /\ UNCHANGED <<idx, successful, failed, outcomes>>
                 ELSE LET email == g.result.value
                      IN  /\ pc' = "loop"
                          /\ idx' = idx + 1
                          /\ successful' = IF Truthy(email) THEN successful + 1 ELSE successful
                          /\ failed' = IF Truthy(email) THEN failed ELSE failed + 1
                          /\ outcomes' = Append(outcomes,
                                [company_name |-> company["company_name"],
                                 llm |-> llm,
                                 email |-> email,
                                 mark |-> IF Truthy(email) THEN "successful" ELSE "failed",
                                 profile |-> g.prompt.value.advisor_profile])
    /\ UNCHANGED <<companies, profileFile>>

\* Lines 288-290: the summary, once the loop is over.
Summary ==
    /\ pc = "loop"
    /\ idx = Len(companies)
    /\ pc' = "summary"
    /\ UNCHANGED <<companies, idx, successful, failed, outcomes, profileFile,
                   cachedProfile, loadCount, input, output>>

\* The environment replaces, removes or creates the profile file.
ProfileFileChanges ==
    /\ pc = "loop"
    /\ profileFile' \in BatchFiles \ {profileFile}
    /\ UNCHANGED <<pc, companies, idx, successful, failed, outcomes,
                   cachedProfile, loadCount, input, output>>

Next == BatchStep \/ Summary \/ ProfileFileChanges

Spec == Init /\ [][Next]_vars

\* generate_personalized_email calls made so far
CallsMade == Len(outcomes) + (IF pc = "aborted" THEN 1 ELSE 0)

\* C2: every record is processed once, in input order, with one outcome each;
\* a record whose collaborator call raises is marked failed, the records after
\* it are still processed, and each outcome depends on its own response only.
C2_BatchIsolation ==
    /\ pc # "aborted"
    /\ Len(outcomes) = idx
    /\ idx <= Len(companies)
    /\ pc = "summary" => idx = Len(companies)
    /\ \A i \in 1..Len(outcomes) :
          /\ outcomes[i].company_name = companies[i]["company_name"]
          /\ outcomes[i].llm.kind = "raise" => outcomes[i].mark = "failed"
          /\ \A j \in 1..Len(outcomes) :
                outcomes[i].llm = outcomes[j].llm => outcomes[i].mark = outcomes[j].mark

\* C10: successful + failed is the number of records processed so far; the
\* loop reaches the summary with successful + failed = len(companies),
\* successful counting the non-None results and failed the None results.
C10_BatchTally ==
    /\ successful + failed = idx
    /\ successful = Cardinality({i \in 1..Len(outcomes) : outcomes[i].email # None})
    /\ failed = Cardinality({i \in 1..Len(outcomes) : outcomes[i].email = None})
    /\ pc # "aborted"
    /\ pc = "summary" => successful + failed = Len(companies)

\* C7: load_advisor_profile runs at most once, in the first call; the cached
\* profile never changes afterwards, and every call builds its prompt from it.
C7_ProfileLoadedOnce ==
    /\ [](/\ loadCount = (IF CallsMade >= 1 THEN 1 ELSE 0)
          /\ cachedProfile.set <=> CallsMade >= 1
          /\ \A i \in 1..Len(outcomes) : outcomes[i].profile = cachedProfile.text
          /\ output # NoOutput => output.prompt.value.advisor_profile = cachedProfile.text)
    /\ [][cachedProfile.set => cachedProfile' = cachedProfile]_vars

C7_Witness ==
    /\ Len(outcomes) = 3
    /\ outcomes[1].mark = "failed"
    /\ outcomes[3].mark = "successful"
    /\ outcomes[3].profile = FallbackProfile
    /\ profileFile.state = "ok"
    /\ loadCount = 1

====
